---- MODULE Spec2Model ----
(***************************************************************************)
(* Market-data acquisition pipeline of FinBot: the two provider clients    *)
(* (AlphaVantageAPI, B3API), their rate limiter, file cache, SQLite store   *)
(* and the tier chain of get_stock_data.                                    *)
(*                                                                         *)
(* Time is the value of datetime.now() in seconds since the client was     *)
(* constructed.  max_cache_age is max_cache_age_hours expressed in the     *)
(* same unit (hours * 3600).                                               *)
(***************************************************************************)
EXTENDS Integers, Sequences, FiniteSets, TLC

(***************************************************************************)
(* Bounds of the model.                                                    *)
(***************************************************************************)
\* seconds by which one Tick advances the clock
TickStep == 20
\* the clock stops advancing here
MaxTime == 60
\* cap on the number of rows of b3_stocks
MaxRows == 2
\* cap on the number of get_stock_data calls of one run
MaxRequests == 2

(***************************************************************************)
(* Program constants.                                                      *)
(***************************************************************************)
\* length of the limiter window in seconds
Window == 60
\* float('inf'), the max_age_hours of the "regardless of age" read
Inf == -1
\* HTTP status of a successful response
StatusOk == 200

Providers == {"AV", "B3"}

\* AlphaVantageAPI.max_calls_per_minute / the literal 10 of B3API
MaxCallsPerMinute(p) == IF p = "AV" THEN 5 ELSE 10

Symbols == {"XYZ"}
Intervals == {"daily"}
OutputSizes == {"full"}
\* start_date / end_date: 0 stands for None, other values are calendar days
NoDate == 0
StartDates == {NoDate, 2}
EndDates == {NoDate}
\* max_cache_age values a caller passes (seconds)
CacheAges == {TickStep}

(***************************************************************************)
(* Payloads.  A payload is [shape, items]; shape tells which keys the      *)
(* decoded body has.                                                       *)
(*   none    : Python None                                                 *)
(*   series  : JSON object with a "Time Series ..." key                    *)
(*   note    : JSON object with neither "Time Series" nor "Error Message"  *)
(*   error   : JSON object with an "Error Message" key                     *)
(*   tradg   : JSON object with TradgFlr.scty.SctyQtn (a quote list)       *)
(*   other   : JSON object without "TradgFlr"                              *)
(*   text    : a 200 body that is not JSON (response.text)                 *)
(*   table   : HTML page with the price table                              *)
(*   notable : HTML page without the price table                           *)
(*   records : list of record dicts holding pandas Timestamps              *)
(***************************************************************************)
NoData == [shape |-> "none", items |-> <<>>]

Quote(d, v) ==
    [date |-> d, opnPric |-> v, maxPric |-> v + 1, minPric |-> v - 1,
     closPric |-> v, tradQty |-> 10 * v]

\* quote lists the providers answer with: empty, one day, the same day with
\* other prices, a later day, two days out of order
QuoteLists ==
    { <<>>,
      <<Quote(1, 1)>>,
      <<Quote(1, 2)>>,
      <<Quote(2, 1)>>,
      <<Quote(2, 1), Quote(1, 1)>> }

\* a JSON object has one value per key: Alpha Vantage series have unique dates
UniqueDates(qs) == \A i, j \in 1..Len(qs) : qs[i].date = qs[j].date => i = j

AVBodies ==
    { [shape |-> "series", items |-> qs] : qs \in {q \in QuoteLists : q # <<>> /\ UniqueDates(q)} }
    \cup { [shape |-> "note", items |-> <<>>], [shape |-> "error", items |-> <<>>] }

B3Bodies ==
    { [shape |-> "tradg", items |-> qs] : qs \in QuoteLists }
    \cup { [shape |-> "other", items |-> <<>>], [shape |-> "text", items |-> <<>>] }

HtmlBodies ==
    { [shape |-> "table", items |-> qs] : qs \in {<<>>, <<Quote(1, 1)>>} }
    \cup { [shape |-> "notable", items |-> <<>>] }

\* an HTTP exchange: status 0 stands for an exception raised by requests.get
Responses(bodies) ==
    { [status |-> 0, body |-> NoData], [status |-> 500, body |-> NoData] }
    \cup { [status |-> StatusOk, body |-> b] : b \in bodies }

\* a result returned to the caller: None is [ok |-> FALSE]
None == [ok |-> FALSE, rows |-> <<>>]
Frame(rows) == [ok |-> TRUE, rows |-> rows]

(***************************************************************************)
(* Rate limiter: the critical section of _make_api_request.                *)
(***************************************************************************)
\* "Reset counter if a minute has passed"
ResetIfElapsed(st, cur) ==
    IF cur - st.reset >= Window THEN [calls |-> 0, reset |-> cur] ELSE st

\* a limiter whose remaining wait is never positive
WaitTimeNone(st, cur) == 0

\* wait_time = 60 - (current_time - api_call_reset_time)
WaitTime(st, cur) == Window - (cur - st.reset)

\* a section that lets the caller pass without counting it
AcquireUncounted(st, cur, ceiling) ==
    [calls |-> st.calls, reset |-> st.reset, at |-> cur, slept |-> FALSE]

\* the whole section run without interruption by a caller that enters at cur;
\* at is the time the caller leaves it (after time.sleep when it waited)
Acquire(st, cur, ceiling) ==
    LET a == ResetIfElapsed(st, cur)
        w == WaitTime(a, cur)
    IN  IF a.calls >= ceiling /\ w > 0
        THEN [calls |-> 1, reset |-> cur + w, at |-> cur + w, slept |-> TRUE]
        ELSE [calls |-> a.calls + 1, reset |-> a.reset, at |-> cur, slept |-> FALSE]

(***************************************************************************)
(* Cache: one file per key holding {timestamp, data}.                      *)
(***************************************************************************)
AbsentEntry == [st |-> "absent", timestamp |-> 0, data |-> NoData]
CorruptEntry == [st |-> "corrupt", timestamp |-> 0, data |-> NoData]

AVCacheDir == "alpha_vantage/"
B3CacheDir == "b3/"

\* AlphaVantageAPI._get_cache_path; "" stands for an absent optional field
AVGetCachePath(function, symbol, interval, outputsize) ==
    AVCacheDir \o symbol \o "_" \o function
        \o (IF interval # "" THEN "_" \o interval ELSE "")
        \o (IF outputsize # "" THEN "_" \o outputsize ELSE "")
        \o ".json"

\* B3API._get_cache_path
B3GetCachePath(data_type, symbol) ==
    B3CacheDir \o symbol \o "_" \o data_type \o ".json"

\* function_map of AlphaVantageAPI.get_stock_data
FunctionMap(interval) ==
    CASE interval = "daily" -> "TIME_SERIES_DAILY"
      [] interval = "weekly" -> "TIME_SERIES_WEEKLY"
      [] interval = "monthly" -> "TIME_SERIES_MONTHLY"
      [] OTHER -> "TIME_SERIES_DAILY"

CachePaths ==
    { AVGetCachePath(FunctionMap(i), s, i, o) : s \in Symbols, i \in Intervals, o \in OutputSizes }
    \cup { B3GetCachePath("stocks", s) : s \in Symbols }

\* json.dump raises TypeError on a pandas Timestamp
JsonSerializable(data) == data.shape # "records"

\* _save_to_cache: open(path, "w") truncates the file, then json.dump writes
\* it; when json.dump raises, the truncated file stays behind
SaveToCache(entry, data, t) ==
    IF JsonSerializable(data)
    THEN [st |-> "ok", timestamp |-> t, data |-> data]
    ELSE CorruptEntry

\* the value _save_to_cache returns
SaveToCacheResult(data) == JsonSerializable(data)

\* _load_from_cache: every exception is caught and gives None;
\* timedelta(hours=float('inf')) raises OverflowError
LoadFromCache(entry, max_age, t) ==
    IF entry.st = "absent" THEN NoData
    ELSE IF entry.st = "corrupt" THEN NoData
    ELSE IF max_age = Inf THEN NoData
    ELSE IF t - entry.timestamp > max_age THEN NoData
    ELSE entry.data

(***************************************************************************)
(* Normalizers.                                                            *)
(***************************************************************************)
RECURSIVE InsertByDate(_, _)
InsertByDate(r, rows) ==
    IF rows = <<>> THEN <<r>>
    ELSE IF r.Date < Head(rows).Date THEN <<r>> \o rows
    ELSE <<Head(rows)>> \o InsertByDate(r, Tail(rows))

\* df.sort_values("date") / df.sort_index()
RECURSIVE SortByDate(_)
SortByDate(rows) ==
    IF rows = <<>> THEN <<>>
    ELSE InsertByDate(rows[Len(rows)], SortByDate(SubSeq(rows, 1, Len(rows) - 1)))

RecordOf(q, symbol, market, t) ==
    [symbol |-> symbol, Date |-> q.date, Open |-> q.opnPric, High |-> q.maxPric,
     Low |-> q.minPric, Close |-> q.closPric, Volume |-> q.tradQty,
     market |-> market, data_type |-> "stock", last_updated |-> t]

\* AlphaVantageAPI._parse_stock_data
AVParseStockData(data, symbol, t) ==
    IF data.shape # "series" THEN None
    ELSE Frame(SortByDate([i \in 1..Len(data.items) |-> RecordOf(data.items[i], symbol, "US", t)]))

\* B3API._parse_stock_data
B3ParseStockData(data, symbol, t) ==
    IF data.shape # "tradg" THEN None
    ELSE IF data.items = <<>> THEN None
    ELSE Frame(SortByDate([i \in 1..Len(data.items) |-> RecordOf(data.items[i], symbol, "BR", t)]))

\* parsed_data.to_dict("records")
ToDictRecords(frame) == [shape |-> "records", items |-> frame.rows]

\* pd.DataFrame(cached_data)
DataFrameOf(data) == Frame(data.items)

\* the table a client writes its records to; AlphaVantageAPI has none
StoreOf(p, table) == IF p = "B3" THEN table ELSE <<>>

(***************************************************************************)
(* Transport.                                                              *)
(***************************************************************************)
\* _make_api_request without the "Error Message" test
AVApiResultNoErrorCheck(resp) ==
    IF resp.status # StatusOk THEN NoData ELSE resp.body

\* AlphaVantageAPI._make_api_request after the limiter section
AVApiResult(resp) ==
    IF resp.status # StatusOk THEN NoData
    ELSE IF resp.body.shape = "error" THEN NoData
    ELSE resp.body

\* B3API._make_api_request after the limiter section
B3ApiResult(resp) ==
    IF resp.status # StatusOk THEN NoData ELSE resp.body

\* the scrape is tried whatever _make_api_request returned
B3PrimaryFailedAlways(data) == TRUE

\* the test of get_stock_data on what _make_api_request returned
B3PrimaryFailed(data) == data.shape # "tradg"

\* B3API._scrape_stock_data: the table rows become quotes with tradQty 0
B3ScrapeResult(resp) ==
    IF resp.status # StatusOk THEN NoData
    ELSE IF resp.body.shape # "table" THEN NoData
    ELSE [shape |-> "tradg",
          items |-> [i \in 1..Len(resp.body.items) |->
                        [resp.body.items[i] EXCEPT !.tradQty = 0]]]

\* the page is requested only when the JSON call failed
NoPage == [status |-> 0, body |-> NoData]
B3Exchanges ==
    { x \in Responses(B3Bodies) \X Responses(HtmlBodies) :
        B3PrimaryFailed(B3ApiResult(x[1])) \/ x[2] = NoPage }

(***************************************************************************)
(* Persistent store: table b3_stocks, rows in insertion (id) order.        *)
(***************************************************************************)
\* data.to_sql(table, conn, if_exists="append"): the table has no unique key
SaveToDatabase(table, frame) == table \o frame.rows

\* the date column holds "YYYY-MM-DD 00:00:00"; it is compared as text with
\* the "YYYY-MM-DD" bounds, so a row of the end day itself is greater
LoadFromDatabase(table, symbol, start_date, end_date) ==
    SelectSeq(table,
        LAMBDA r : /\ r.symbol = symbol
                   /\ (start_date # NoDate => r.Date >= start_date)
                   /\ (end_date # NoDate => r.Date < end_date))

(***************************************************************************)
(* State.                                                                  *)
(***************************************************************************)
Threads == {"t1", "t2"}

VARIABLES
    now,                  \* datetime.now()
    client,               \* the provider clients in use
    api_calls,            \* self.api_calls of each client
    api_call_reset_time,  \* self.api_call_reset_time of each client
    api_lock,             \* self.api_lock of each client: its holder or "free"
    cache,                \* the cache files, by path
    b3_stocks,            \* table b3_stocks
    passed,               \* times, within the last Window seconds, at which
                          \* callers left the limiter section of each client
    last,                 \* what the latest get_stock_data call did
    requests,             \* number of get_stock_data calls made so far
    pc,                   \* where each thread is inside _make_api_request
    current_time,         \* the local current_time of each thread
    wake_time,            \* when the time.sleep of each thread ends
    market_data,          \* table market_data of DataManager, in rowid order
    economic_indicators   \* table economic_indicators, in rowid order

vars == <<now, client, api_calls, api_call_reset_time, api_lock, cache, b3_stocks, passed,
          last, requests, pc, current_time, wake_time, market_data, economic_indicators>>

\* the variables of the threads inside _make_api_request
thread_vars == <<api_lock, pc, current_time, wake_time>>

\* the tables of DataManager
manager_vars == <<market_data, economic_indicators>>

\* one counter and one window shared by all clients
LimiterOfFirst(p) == [calls |-> api_calls["AV"], reset |-> api_call_reset_time["AV"]]

\* self.api_calls and self.api_call_reset_time of a client
Limiter(p) == [calls |-> api_calls[p], reset |-> api_call_reset_time[p]]

\* keeps the times later than t - Window
Prune(times, t) == SelectSeq(times, LAMBDA x : x > t - Window)

\* a request that was not made
NotAsked == [status |-> -1, shape |-> "none"]
Exchange(resp) == [status |-> resp.status, shape |-> resp.body.shape]

\* the messages get_stock_data logs; interval is "" where the text has none
WithInterval(interval) == IF interval # "" THEN " (" \o interval \o ")" ELSE ""

\* a fresh hit announced in the words of a stale one
UsingCachedMessageAsExpired(symbol, interval) ==
    "Using expired cached data for " \o symbol \o WithInterval(interval)

UsingCachedMessage(symbol, interval) ==
    "Using cached data for " \o symbol \o WithInterval(interval)
UsingDatabaseMessage(symbol) == "Using database data for " \o symbol
TryingAlternativeMessage(symbol) ==
    "Failed to fetch data for " \o symbol \o ". Trying alternative method..."
TryingStaleMessage(symbol, alternative) ==
    "Failed to fetch data for " \o symbol
        \o (IF alternative THEN " using alternative method" ELSE "")
        \o ". Trying to use cache regardless of age..."
UsingExpiredMessage(symbol, interval) ==
    "Using expired cached data for " \o symbol \o WithInterval(interval)
FailedToParseMessage(symbol) == "Failed to parse data for " \o symbol

NoCall ==
    [op |-> "none", provider |-> "", symbol |-> "", use_cache |-> FALSE, max_age |-> 0,
     start_date |-> NoDate, end_date |-> NoDate, t0 |-> 0, path |-> "",
     pre_entry |-> AbsentEntry, pre_rows |-> <<>>,
     tiers |-> <<>>, loads |-> <<>>, primary |-> NotAsked, secondary |-> NotAsked,
     data |-> NoData, norm_fail |-> "none", cache_written |-> FALSE,
     store_written |-> FALSE, acquired |-> 0, outbound |-> 0, at |-> 0, result |-> None,
     log |-> <<>>]

\* a stale tier that reads the cache whatever the flag
StaleReadAlways(use_cache) == TRUE

\* "if use_cache:" in front of the ignore-age read, after the live tiers failed
StaleReadEnabled(use_cache) == use_cache

\* a fresh-cache test that never finds the loaded entry
CachedDataNeverFound(cached_data) == FALSE

\* "if cached_data is not None" of the fresh-cache tier
CachedDataFound(cached_data) == cached_data # NoData

LoadEvent(entry, max_age, t, out) == [entry |-> entry, max_age |-> max_age, at |-> t, out |-> out]

Init ==
    /\ now = 0
    /\ client \in {{p} : p \in Providers}
    /\ api_calls = [p \in Providers |-> 0]
    /\ api_call_reset_time = [p \in Providers |-> 0]
    /\ api_lock = [p \in Providers |-> "free"]
    /\ cache = [path \in CachePaths |-> AbsentEntry]
    /\ b3_stocks = <<>>
    /\ passed = [p \in Providers |-> <<>>]
    /\ last = NoCall
    /\ requests = 0
    /\ pc = [t \in Threads |-> "idle"]
    /\ current_time = [t \in Threads |-> 0]
    /\ wake_time = [t \in Threads |-> 0]
    /\ market_data = <<>>
    /\ economic_indicators = <<>>

\* time passes
Tick ==
    /\ now + TickStep <= MaxTime
    /\ now' = now + TickStep
    /\ passed' = [p \in Providers |-> Prune(passed[p], now + TickStep)]
    /\ UNCHANGED <<client, api_calls, api_call_reset_time, cache, b3_stocks, last, requests,
                   thread_vars, manager_vars>>

(***************************************************************************)
(* AlphaVantageAPI.get_stock_data, run to completion.                      *)
(***************************************************************************)
AVRun(symbol, interval, outputsize, use_cache, max_age, resp) ==
    LET function == FunctionMap(interval)
        path == AVGetCachePath(function, symbol, interval, outputsize)
        entry0 == cache[path]
        fresh == IF use_cache THEN LoadFromCache(entry0, max_age, now) ELSE NoData
        base == [NoCall EXCEPT !.op = "get_stock_data", !.provider = "AV",
                    !.symbol = symbol, !.use_cache = use_cache, !.max_age = max_age,
                    !.t0 = now, !.at = now, !.path = path, !.pre_entry = entry0,
                    !.tiers = IF use_cache THEN <<"fresh">> ELSE <<>>,
                    !.loads = IF use_cache THEN <<LoadEvent(entry0, max_age, now, fresh)>> ELSE <<>>]
        lim == Acquire(Limiter("AV"), now, MaxCallsPerMinute("AV"))
        data == AVApiResult(resp)
        stale == IF StaleReadEnabled(use_cache)
                 THEN LoadFromCache(entry0, Inf, lim.at) ELSE NoData
        live == [base EXCEPT !.tiers = @ \o <<"primary">>, !.acquired = 1, !.outbound = 1,
                    !.primary = Exchange(resp), !.at = lim.at]
    IN  IF use_cache /\ CachedDataFound(fresh)
        THEN LET result == AVParseStockData(fresh, symbol, now)
             IN  [lim |-> Limiter("AV"), entry |-> entry0, called |-> FALSE,
                  call |-> [base EXCEPT !.data = fresh, !.result = result,
                               !.log = <<UsingCachedMessage(symbol, interval)>>,
                               !.norm_fail = IF result = None THEN "fresh" ELSE "none"]]
        ELSE IF data = NoData
        THEN LET result == IF stale # NoData THEN AVParseStockData(stale, symbol, lim.at) ELSE None
             IN  [lim |-> lim, entry |-> entry0, called |-> TRUE,
                  call |-> [live EXCEPT
                               !.tiers = IF StaleReadEnabled(use_cache)
                                        THEN @ \o <<"stale">> ELSE @,
                               !.loads = IF StaleReadEnabled(use_cache)
                                         THEN @ \o <<LoadEvent(entry0, Inf, lim.at, stale)>>
                                         ELSE @,
                               !.data = stale,
                               !.log = <<TryingStaleMessage(symbol, FALSE)>>
                                       \o (IF stale # NoData
                                           THEN <<UsingExpiredMessage(symbol, interval)>>
                                           ELSE <<>>),
                               !.norm_fail = IF stale # NoData /\ result = None
                                             THEN "stale" ELSE "none",
                               !.result = result]]
        ELSE LET result == AVParseStockData(data, symbol, lim.at)
             IN  [lim |-> lim,
                  entry |-> IF use_cache THEN SaveToCache(entry0, data, lim.at) ELSE entry0,
                  called |-> TRUE,
                  call |-> [live EXCEPT !.data = data,
                               !.cache_written = use_cache,
                               !.norm_fail = IF result = None THEN "primary" ELSE "none",
                               !.result = result]]

AVGetStockData(symbol, interval, outputsize, use_cache, max_age, resp) ==
    /\ "AV" \in client
    /\ requests < MaxRequests
    /\ \E run \in {AVRun(symbol, interval, outputsize, use_cache, max_age, resp)} :
        /\ requests' = requests + 1
        /\ run.call.at <= MaxTime
        /\ now' = run.call.at
        /\ api_calls' = [api_calls EXCEPT !["AV"] = run.lim.calls]
        /\ api_call_reset_time' = [api_call_reset_time EXCEPT !["AV"] = run.lim.reset]
        /\ cache' = [cache EXCEPT ![run.call.path] = run.entry]
        /\ passed' = [p \in Providers |->
                        Prune(IF p = "AV" /\ run.called
                              THEN Append(passed[p], run.call.at) ELSE passed[p],
                              run.call.at)]
        /\ last' = run.call
        /\ UNCHANGED <<client, b3_stocks, thread_vars, manager_vars>>

(***************************************************************************)
(* B3API.get_stock_data, run to completion.  resp1 answers the JSON call,  *)
(* resp2 the page request of _scrape_stock_data.                           *)
(***************************************************************************)
B3Run(symbol, start_date, end_date, use_cache, max_age, resp1, resp2) ==
    LET path == B3GetCachePath("stocks", symbol)
        entry0 == cache[path]
        fresh == IF use_cache THEN LoadFromCache(entry0, max_age, now) ELSE NoData
        db_data == LoadFromDatabase(b3_stocks, symbol, start_date, end_date)
        base == [NoCall EXCEPT !.op = "get_stock_data", !.provider = "B3",
                    !.symbol = symbol, !.use_cache = use_cache, !.max_age = max_age,
                    !.start_date = start_date, !.end_date = end_date,
                    !.t0 = now, !.at = now, !.path = path, !.pre_entry = entry0,
                    !.pre_rows = LoadFromDatabase(b3_stocks, symbol, NoDate, NoDate),
                    !.tiers = IF use_cache THEN <<"fresh">> ELSE <<>>,
                    !.loads = IF use_cache THEN <<LoadEvent(entry0, max_age, now, fresh)>> ELSE <<>>]
        lim == Acquire(Limiter("B3"), now, MaxCallsPerMinute("B3"))
        data1 == B3ApiResult(resp1)
        data2 == B3ScrapeResult(resp2)
        scraped == B3PrimaryFailed(data1)
        data == IF scraped THEN data2 ELSE data1
        stale == IF StaleReadEnabled(use_cache)
                 THEN LoadFromCache(entry0, Inf, lim.at) ELSE NoData
        parsed == B3ParseStockData(data, symbol, lim.at)
        live == [base EXCEPT !.tiers = @ \o <<"store", "primary">>
                                         \o (IF scraped THEN <<"secondary">> ELSE <<>>),
                    !.acquired = 1, !.outbound = IF scraped THEN 2 ELSE 1,
                    !.primary = Exchange(resp1),
                    !.secondary = IF scraped THEN Exchange(resp2) ELSE NotAsked,
                    !.data = data,
                    !.log = IF scraped THEN <<TryingAlternativeMessage(symbol)>> ELSE <<>>,
                    !.at = lim.at]
        keep == [lim |-> Limiter("B3"), entry |-> entry0, table |-> b3_stocks, called |-> FALSE,
                 call |-> base]
    IN  IF use_cache /\ CachedDataFound(fresh)
        THEN [keep EXCEPT !.call = [base EXCEPT !.data = fresh,
                                                !.log = <<UsingCachedMessage(symbol, "")>>,
                                                !.result = DataFrameOf(fresh)]]
        ELSE IF db_data # <<>>
        THEN [keep EXCEPT !.call = [base EXCEPT !.tiers = @ \o <<"store">>,
                                                !.log = <<UsingDatabaseMessage(symbol)>>,
                                                !.result = Frame(db_data)]]
        ELSE IF scraped /\ data2 = NoData
        THEN [keep EXCEPT !.lim = lim, !.called = TRUE,
                 !.call = [live EXCEPT
                              !.tiers = IF StaleReadEnabled(use_cache)
                                        THEN @ \o <<"stale">> ELSE @,
                              !.loads = IF StaleReadEnabled(use_cache)
                                        THEN @ \o <<LoadEvent(entry0, Inf, lim.at, stale)>>
                                        ELSE @,
                              !.data = stale,
                              !.log = @ \o <<TryingStaleMessage(symbol, TRUE)>>
                                        \o (IF stale # NoData
                                            THEN <<UsingExpiredMessage(symbol, "")>>
                                            ELSE <<>>),
                              !.result = IF stale # NoData THEN DataFrameOf(stale) ELSE None]]
        ELSE IF parsed = None
        THEN [keep EXCEPT !.lim = lim, !.called = TRUE,
                 !.call = [live EXCEPT
                              !.log = @ \o <<FailedToParseMessage(symbol)>>,
                              !.norm_fail = IF scraped THEN "secondary" ELSE "primary"]]
        ELSE [keep EXCEPT !.lim = lim, !.called = TRUE,
                 !.entry = IF use_cache
                           THEN SaveToCache(entry0, ToDictRecords(parsed), lim.at)
                           ELSE entry0,
                 !.table = SaveToDatabase(b3_stocks, parsed),
                 !.call = [live EXCEPT !.cache_written = use_cache,
                                       !.store_written = TRUE,
                                       !.result = parsed]]

B3GetStockData(symbol, start_date, end_date, use_cache, max_age, resp1, resp2) ==
    /\ "B3" \in client
    /\ requests < MaxRequests
    /\ \E run \in {B3Run(symbol, start_date, end_date, use_cache, max_age, resp1, resp2)} :
        /\ requests' = requests + 1
        /\ run.call.at <= MaxTime
        /\ Len(run.table) <= MaxRows
        /\ now' = run.call.at
        /\ api_calls' = [api_calls EXCEPT !["B3"] = run.lim.calls]
        /\ api_call_reset_time' = [api_call_reset_time EXCEPT !["B3"] = run.lim.reset]
        /\ cache' = [cache EXCEPT ![run.call.path] = run.entry]
        /\ b3_stocks' = run.table
        /\ passed' = [p \in Providers |->
                        Prune(IF p = "B3" /\ run.called
                              THEN Append(passed[p], run.call.at) ELSE passed[p],
                              run.call.at)]
        /\ last' = run.call
        /\ UNCHANGED <<client, thread_vars, manager_vars>>

Next ==
    \/ Tick
    \/ \E symbol \in Symbols, interval \in Intervals, outputsize \in OutputSizes,
          use_cache \in BOOLEAN, max_age \in CacheAges, resp \in Responses(AVBodies) :
            AVGetStockData(symbol, interval, outputsize, use_cache, max_age, resp)
    \/ \E symbol \in Symbols, start_date \in StartDates, end_date \in EndDates,
          use_cache \in BOOLEAN, max_age \in CacheAges, x \in B3Exchanges :
            B3GetStockData(symbol, start_date, end_date, use_cache, max_age, x[1], x[2])

Spec == Init /\ [][Next]_vars

(***************************************************************************)
(* _make_api_request step by step, for concurrent callers of one client.   *)
(***************************************************************************)
\* the section entered without waiting for self.api_lock
EnterSectionNoLock(t, p) ==
    /\ p \in client
    /\ pc[t] = "idle"
    /\ api_lock' = [api_lock EXCEPT ![p] = t]
    /\ current_time' = [current_time EXCEPT ![t] = now]
    /\ pc' = [pc EXCEPT ![t] = "check"]
    /\ UNCHANGED <<now, client, api_calls, api_call_reset_time, cache, b3_stocks, passed,
                   manager_vars,
                   last, requests, wake_time>>

\* with self.api_lock: current_time = datetime.now()
EnterSection(t, p) ==
    /\ p \in client
    /\ pc[t] = "idle"
    /\ api_lock[p] = "free"
    /\ api_lock' = [api_lock EXCEPT ![p] = t]
    /\ current_time' = [current_time EXCEPT ![t] = now]
    /\ pc' = [pc EXCEPT ![t] = "check"]
    /\ UNCHANGED <<now, client, api_calls, api_call_reset_time, cache, b3_stocks, passed,
                   manager_vars,
                   last, requests, wake_time>>

\* the two tests of the section, up to the call of time.sleep
CheckLimit(t, p) ==
    /\ pc[t] = "check"
    /\ api_lock[p] = t
    /\ LET a == ResetIfElapsed(Limiter(p), current_time[t])
           w == WaitTime(a, current_time[t])
       IN  /\ api_calls' = [api_calls EXCEPT ![p] = a.calls]
           /\ api_call_reset_time' = [api_call_reset_time EXCEPT ![p] = a.reset]
           /\ IF a.calls >= MaxCallsPerMinute(p) /\ w > 0
              THEN /\ pc' = [pc EXCEPT ![t] = "sleep"]
                   /\ wake_time' = [wake_time EXCEPT ![t] = now + w]
              ELSE /\ pc' = [pc EXCEPT ![t] = "incr"]
                   /\ UNCHANGED wake_time
    /\ UNCHANGED <<now, client, api_lock, cache, b3_stocks, passed,
                   manager_vars,
                   last, requests,
                   current_time>>

\* time.sleep returns: "Reset counter after waiting"
WakeUp(t, p) ==
    /\ pc[t] = "sleep"
    /\ api_lock[p] = t
    /\ now >= wake_time[t]
    /\ api_calls' = [api_calls EXCEPT ![p] = 0]
    /\ api_call_reset_time' = [api_call_reset_time EXCEPT ![p] = now]
    /\ pc' = [pc EXCEPT ![t] = "incr"]
    /\ UNCHANGED <<now, client, api_lock, cache, b3_stocks, passed,
                   manager_vars,
                   last, requests,
                   current_time, wake_time>>

\* self.api_calls += 1, and the lock is released
LeaveSection(t, p) ==
    /\ pc[t] = "incr"
    /\ api_lock[p] = t
    /\ api_calls' = [api_calls EXCEPT ![p] = @ + 1]
    /\ api_lock' = [api_lock EXCEPT ![p] = "free"]
    /\ passed' = [passed EXCEPT ![p] = Prune(Append(@, now), now)]
    /\ pc' = [pc EXCEPT ![t] = "request"]
    /\ UNCHANGED <<now, client, api_call_reset_time, cache, b3_stocks, last, requests,
                   manager_vars,
                   current_time, wake_time>>

\* requests.get answers (or raises) and _make_api_request returns
Respond(t) ==
    /\ pc[t] = "request"
    /\ pc' = [pc EXCEPT ![t] = "idle"]
    /\ UNCHANGED <<now, client, api_calls, api_call_reset_time, api_lock, cache, b3_stocks,
                   manager_vars,
                   passed, last, requests, current_time, wake_time>>

NextLimiter ==
    \/ Tick
    \/ \E t \in Threads, p \in Providers :
        \/ EnterSection(t, p)
        \/ CheckLimit(t, p)
        \/ WakeUp(t, p)
        \/ LeaveSection(t, p)
    \/ \E t \in Threads : Respond(t)

SpecLimiter == Init /\ [][NextLimiter]_vars

(***************************************************************************)
(* Properties.  They speak about the latest get_stock_data call (last) and *)
(* the state it left behind.                                               *)
(***************************************************************************)
Called == last.op = "get_stock_data"

Range(f) == {f[i] : i \in DOMAIN f}

\* what the provider answered, judged on the answer itself
AVTransportFailed(x) == x.status # StatusOk \/ x.shape = "error"
B3PrimaryCallFailed(x) == x.status # StatusOk \/ x.shape # "tradg"
B3ScrapeFailed(x) == x.status # StatusOk \/ x.shape # "table"

\* every live tier of the provider was tried and failed
LiveTiersFailed ==
    IF last.provider = "AV"
    THEN last.primary # NotAsked /\ AVTransportFailed(last.primary)
    ELSE /\ last.primary # NotAsked /\ B3PrimaryCallFailed(last.primary)
         /\ last.secondary # NotAsked /\ B3ScrapeFailed(last.secondary)

\* the entry is there and older than max_age at time t
Expired(entry, max_age, t) == entry.st = "ok" /\ t - entry.timestamp > max_age

\* the records a payload normalizes to
NormalizedBy(p, data, symbol, t) ==
    IF p = "AV" THEN AVParseStockData(data, symbol, t)
    ELSE IF data.shape = "records" THEN DataFrameOf(data)
    ELSE B3ParseStockData(data, symbol, t)

KeyOf(r) == <<r.symbol, r.Date, r.data_type>>

\* C1: with use_cache, when the only cache entry of the key is older than
\* max_cache_age, the store has no rows of the symbol and every live tier
\* fails, the call returns the records of that expired entry, not None.
C1_StaleCacheServed ==
    (/\ Called
     /\ last.use_cache
     /\ Expired(last.pre_entry, last.max_age, last.t0)
     /\ last.pre_rows = <<>>
     /\ LiveTiersFailed)
    => /\ last.result # None
       /\ last.result = NormalizedBy(last.provider, last.pre_entry.data, last.symbol, last.at)

\* C2: in every interleaving of concurrent callers of _make_api_request, at
\* most MaxCallsPerMinute callers of a client leave the limiter section
\* within any rolling Window (60 s) interval.
C2_RollingWindowLimit ==
    \A p \in Providers : Len(passed[p]) <= MaxCallsPerMinute(p)

\* C3: after any sequence of store writes the table holds exactly one row
\* for each (symbol, date, data_type) written: a repeated key replaces the
\* row and never adds a second one.
C3_OneRowPerKey ==
    \A i, j \in DOMAIN b3_stocks :
        KeyOf(b3_stocks[i]) = KeyOf(b3_stocks[j]) => i = j

\* C4: B3 get_stock_data with use_cache, after a fresh-cache miss, an empty
\* store result, a failed JSON call and a successful scrape, returns the
\* records normalized from the scrape; when it returns, a cache load of the
\* key with the caller's max_cache_age gives those records and b3_stocks
\* holds a row for each of them.
C4_SecondaryWriteThrough ==
    (/\ Called
     /\ last.provider = "B3"
     /\ last.use_cache
     /\ last.loads # <<>> /\ last.loads[1].out = NoData
     /\ "secondary" \in Range(last.tiers)
     /\ B3PrimaryCallFailed(last.primary)
     /\ ~B3ScrapeFailed(last.secondary)
     /\ last.data.items # <<>>
     /\ now = last.at)
    => /\ last.result = B3ParseStockData(last.data, last.symbol, last.at)
       /\ last.result # None
       /\ LoadFromCache(cache[last.path], last.max_age, now) = ToDictRecords(last.result)
       /\ \A i \in DOMAIN last.result.rows :
            \E j \in DOMAIN b3_stocks : b3_stocks[j] = last.result.rows[i]

\* the live primary call answered with data that normalizes
PrimaryValid ==
    /\ last.primary.status = StatusOk
    /\ last.primary.shape = (IF last.provider = "AV" THEN "series" ELSE "tradg")
    /\ last.data.items # <<>>

\* C5: a request whose cache entry is older than max_cache_age, with an
\* empty store and a live primary call that answers valid data, returns the
\* normalized records, replaces the cache entry by one captured at the time
\* of the call, and leaves exactly one store row per (symbol, date,
\* data_type) of the returned records.
C5_RefreshScenario ==
    (/\ Called
     /\ last.use_cache
     /\ Expired(last.pre_entry, last.max_age, last.t0)
     /\ last.pre_rows = <<>>
     /\ PrimaryValid)
    => /\ last.result # None
       /\ last.result = NormalizedBy(last.provider, last.data, last.symbol, last.at)
       /\ cache[last.path].st = "ok"
       /\ cache[last.path].timestamp = last.at
       /\ \A i \in DOMAIN last.result.rows :
            Cardinality({j \in DOMAIN StoreOf(last.provider, b3_stocks) :
                            KeyOf(StoreOf(last.provider, b3_stocks)[j])
                                = KeyOf(last.result.rows[i])}) = 1

\* the case of C6: no cache entry, no rows of the symbol, every live call failed
ExhaustionCase ==
    /\ Called
    /\ last.pre_entry.st = "absent"
    /\ last.pre_rows = <<>>
    /\ LiveTiersFailed

C7_CacheOnlyNormalized ==
    \A path \in CachePaths :
        cache[path].st = "ok"
        => \E p \in Providers, symbol \in Symbols :
              NormalizedBy(p, cache[path].data, symbol, now) # None

\* the tiers of a call in their order
TierChain(call) ==
    IF call.provider = "AV"
    THEN (IF call.use_cache THEN <<"fresh", "primary", "stale">> ELSE <<"primary">>)
    ELSE (IF call.use_cache THEN <<"fresh", "store", "primary", "secondary", "stale">>
          ELSE <<"store", "primary", "secondary">>)

\* C8: when the payload of a tier fails normalization the resolver goes on
\* to the next tier of the chain; None is returned only after the last tier.
C8_NormalizationFailureAdvances ==
    (Called /\ last.norm_fail # "none")
    => \A i \in DOMAIN TierChain(last) :
          (TierChain(last)[i] = last.norm_fail /\ i < Len(TierChain(last)))
          => TierChain(last)[i + 1] \in Range(last.tiers)

\* C9: every outbound request of a fetch, on the primary and on the scrape
\* path alike, is preceded by its own acquisition of the client's limiter.
C9_NoLimiterBypass ==
    Called => last.outbound <= last.acquired

\* C10: _load_from_cache returns the stored payload if and only if an entry
\* exists and its age is at most max_age (an age equal to max_age is a hit,
\* every age is within an infinite max_age); otherwise it returns None.
C10_CacheTtl ==
    \A i \in DOMAIN last.loads :
        LET e == last.loads[i]
            within == e.max_age = Inf \/ e.at - e.entry.timestamp <= e.max_age
        IN  /\ (e.out # NoData) <=> (e.entry.st = "ok" /\ within)
            /\ (e.out # NoData) => e.out = e.entry.data

\* the latest call found tier failing, judged on what the tier had to offer
TierFailed(tier) ==
    CASE tier = "fresh" -> last.loads[1].out = NoData
      [] tier = "store" ->
            LoadFromDatabase(last.pre_rows, last.symbol, last.start_date, last.end_date) = <<>>
      [] tier = "primary" ->
            IF last.provider = "AV" THEN AVTransportFailed(last.primary)
            ELSE B3PrimaryCallFailed(last.primary)
      [] tier = "secondary" -> B3ScrapeFailed(last.secondary)
      [] OTHER -> FALSE

\* C11: within one get_stock_data request the tiers are consulted in the
\* fixed order fresh cache, store (B3), live primary, live secondary (B3),
\* stale cache; a tier is consulted only after every earlier one failed,
\* each tier at most once, and at most one primary provider call is issued.
C11_SequentialChain ==
    Called
    => /\ Len(last.tiers) <= Len(TierChain(last))
       /\ \A i \in DOMAIN last.tiers :
            /\ last.tiers[i] = TierChain(last)[i]
            /\ i < Len(last.tiers) => TierFailed(last.tiers[i])
       /\ \A i, j \in DOMAIN last.tiers : last.tiers[i] = last.tiers[j] => i = j
       /\ last.acquired <= 1
       /\ (last.primary # NotAsked) <=> ("primary" \in Range(last.tiers))

\* C11 witness: a B3 call consulted all five tiers after a refused JSON call
C11_Witness ==
    /\ Called
    /\ last.provider = "B3"
    /\ Len(last.tiers) = 5
    /\ last.primary.status = 500
    /\ last.secondary # NotAsked

\* the threads between the acquisition and the release of api_lock
InSection == {t \in Threads : pc[t] \in {"check", "sleep", "incr"}}

\* at most one caller is inside the section, and it holds the lock
OneInSection ==
    /\ Cardinality(InSection) <= 1
    /\ \A p \in client :
          IF InSection = {} THEN api_lock[p] = "free" ELSE api_lock[p] \in InSection

\* a caller leaving the section adds exactly one to api_calls, and api_calls
\* changes in no other way than by that or by a reset to 0
CountsEveryCaller ==
    \A p \in client :
        /\ \A t \in Threads :
              (pc[t] = "incr" /\ pc'[t] = "request") => api_calls'[p] = api_calls[p] + 1
        /\ api_calls'[p] # api_calls[p]
              => \/ \E t \in Threads : pc[t] = "incr" /\ pc'[t] = "request"
                 \/ api_calls'[p] = 0 /\ \E t \in Threads : pc[t] \in {"check", "sleep"}

\* C12: the check, wait and increment of _make_api_request are one critical
\* section under api_lock: in every interleaving at most one caller is
\* inside it, and no increment of api_calls is lost (every acquisition adds
\* one, so k acquisitions without a reset between them leave api_calls = k).
C12_AtomicLimiterSection == []OneInSection /\ [][CountsEveryCaller]_vars

\* C12 witness: one caller is inside the section after two others went
\* through it in the same window, the other thread still in its request
C12_Witness ==
    \E p \in client :
        /\ api_call_reset_time[p] = 0
        /\ api_calls[p] = 2
        /\ Len(passed[p]) = 2
        /\ pc["t1"] = "incr"
        /\ pc["t2"] = "request"

(***************************************************************************)
(* _get_cache_path applied to pairs of parameter tuples.                   *)
(***************************************************************************)
\* parameter values whose underscores can fall on either side of a field
PathFunctions == {"FX", "B_FX"}
PathSymbols == {"A", "A_B"}
\* optional fields; "" stands for an absent one
PathOptionals == {"", "full"}
PathDataTypes == {"stocks", "B_stocks"}

AVPathTuples == PathFunctions \X PathSymbols \X PathOptionals \X PathOptionals
B3PathTuples == PathDataTypes \X PathSymbols

\* two calls of AlphaVantageAPI._get_cache_path(function, symbol, interval, outputsize)
AVCachePathCalls(a, b) ==
    /\ "AV" \in client
    /\ last' = [op |-> "_get_cache_path", provider |-> "AV", first |-> a, second |-> b,
                first_path |-> AVGetCachePath(a[1], a[2], a[3], a[4]),
                second_path |-> AVGetCachePath(b[1], b[2], b[3], b[4])]
    /\ UNCHANGED <<now, client, api_calls, api_call_reset_time, cache, b3_stocks, passed,
                   requests, thread_vars, manager_vars>>

\* two calls of B3API._get_cache_path(data_type, symbol)
B3CachePathCalls(a, b) ==
    /\ "B3" \in client
    /\ last' = [op |-> "_get_cache_path", provider |-> "B3", first |-> a, second |-> b,
                first_path |-> B3GetCachePath(a[1], a[2]),
                second_path |-> B3GetCachePath(b[1], b[2])]
    /\ UNCHANGED <<now, client, api_calls, api_call_reset_time, cache, b3_stocks, passed,
                   requests, thread_vars, manager_vars>>

NextCachePath ==
    \/ \E a \in AVPathTuples, b \in AVPathTuples : AVCachePathCalls(a, b)
    \/ \E a \in B3PathTuples, b \in B3PathTuples : B3CachePathCalls(a, b)

SpecCachePath == Init /\ [][NextCachePath]_vars

\* C13: _get_cache_path maps two parameter tuples to the same path if and
\* only if the tuples are equal, also when they differ only in which
\* optional field is absent or in where an underscore falls between symbol
\* and function.
C13_CacheKeyInjective ==
    last.op = "_get_cache_path"
    => ((last.first_path = last.second_path) <=> (last.first = last.second))

\* the payload the latest call handed to _save_to_cache
SavedPayload ==
    IF last.provider = "AV" THEN last.data ELSE ToDictRecords(last.result)

\* C14: the cache holds one entry per key and the newest save wins: after a
\* call saved a payload under a key, a load of the key within max_age
\* returns that payload, and the entry carries the time of that save.
C14_NewestSaveWins ==
    (/\ Called
     /\ last.cache_written
     /\ now - last.at <= last.max_age)
    => /\ LoadFromCache(cache[last.path], last.max_age, now) = SavedPayload
       /\ cache[last.path].timestamp = last.at

(***************************************************************************)
(* The stores under concurrent and repeated writes: B3API.get_stock_data   *)
(* without cache, stepped per thread (store query, then fetch and write),  *)
(* and DataManager.fetch_stock_data.                                       *)
(***************************************************************************)
Markets == {"US", "BR"}

\* datetime.now() as a date on the scale of the quote dates
Today == 3
\* get_cached_market_data(days=365), on the scale of the quote dates
DefaultDays == 2

\* fetch_stock_data: suffix of Brazilian symbols (no symbol of Symbols ends
\* with ".SA" already)
YahooSymbol(symbol, market) == IF market = "BR" THEN symbol \o ".SA" ELSE symbol

\* _store_market_data: the values bound to the INSERT of one row
MarketRow(r) ==
    [symbol |-> r.symbol, market |-> r.market, date |-> r.Date, open |-> r.Open,
     high |-> r.High, low |-> r.Low, close |-> r.Close, volume |-> r.Volume,
     data_type |-> r.data_type, last_updated |-> r.last_updated]

\* UNIQUE(symbol, date, data_type)
MarketKey(r) == <<r.symbol, r.date, r.data_type>>

\* INSERT OR REPLACE INTO market_data: the row in conflict is deleted and
\* the new row gets the next rowid
InsertOrReplaceMarket(table, r) ==
    Append(SelectSeq(table, LAMBDA x : MarketKey(x) # MarketKey(r)), r)

\* _store_market_data: one INSERT OR REPLACE per row of the frame
RECURSIVE StoreMarketData(_, _)
StoreMarketData(table, rows) ==
    IF rows = <<>> THEN table
    ELSE StoreMarketData(InsertOrReplaceMarket(table, MarketRow(Head(rows))), Tail(rows))

RECURSIVE InsertByDateAsc(_, _)
InsertByDateAsc(r, rows) ==
    IF rows = <<>> THEN <<r>>
    ELSE IF r.date < Head(rows).date THEN <<r>> \o rows
    ELSE <<Head(rows)>> \o InsertByDateAsc(r, Tail(rows))

\* ORDER BY date ASC
RECURSIVE OrderByDateAsc(_)
OrderByDateAsc(rows) ==
    IF rows = <<>> THEN <<>>
    ELSE InsertByDateAsc(rows[Len(rows)], OrderByDateAsc(SubSeq(rows, 1, Len(rows) - 1)))

\* DataManager.get_cached_market_data; None when no row matches
GetCachedMarketData(table, symbol, market, data_type, days) ==
    LET rows == OrderByDateAsc(SelectSeq(table, LAMBDA r :
                    /\ r.symbol = symbol /\ r.market = market /\ r.data_type = data_type
                    /\ r.date >= Today - days /\ r.date <= Today))
    IN  IF Len(rows) > 0 THEN Frame(rows) ELSE None

\* the records written so far, kept with the latest operation
WrittenSoFar == IF "written" \in DOMAIN last THEN last.written ELSE {}

\* DataManager.fetch_stock_data; ok = FALSE when Yahoo Finance raises.
\* requests counts the fetches that go to a provider.
FetchStockData(symbol, market, ok, quotes) ==
    /\ ok => requests < MaxRequests
    /\ requests' = IF ok THEN requests + 1 ELSE requests
    /\ LET sym == YahooSymbol(symbol, market)
           data == [i \in 1..Len(quotes) |->
                      RecordOf(quotes[i], sym, market, now)]
           cached == GetCachedMarketData(market_data, sym, market, "stock", DefaultDays)
       IN  IF ok
           THEN /\ market_data' = StoreMarketData(market_data, data)
                /\ last' = [op |-> "fetch_stock_data", symbol |-> sym, source |-> "live",
                            result |-> Frame(data),
                            written |-> WrittenSoFar \cup {MarketRow(data[i]) : i \in DOMAIN data}]
           ELSE /\ market_data' = market_data
                /\ last' = [op |-> "fetch_stock_data", symbol |-> sym, source |-> "store",
                            result |-> cached, written |-> WrittenSoFar]
    /\ UNCHANGED <<now, client, api_calls, api_call_reset_time, cache, b3_stocks, passed,
                   economic_indicators, thread_vars>>

\* B3API.get_stock_data(use_cache=False) up to the store query: rows found
\* are returned, otherwise the thread goes on to the live call
B3FetchStart(t, symbol, start_date, end_date) ==
    /\ "B3" \in client
    /\ pc[t] = "idle"
    /\ LET db_data == LoadFromDatabase(b3_stocks, symbol, start_date, end_date)
       IN  /\ db_data = <<>> => requests < MaxRequests
           /\ requests' = IF db_data = <<>> THEN requests + 1 ELSE requests
           /\ pc' = [pc EXCEPT ![t] = IF db_data # <<>> THEN "idle" ELSE "live"]
           /\ last' = [op |-> "_load_from_database", symbol |-> symbol, source |-> "store",
                       result |-> IF db_data # <<>> THEN Frame(db_data) ELSE None,
                       written |-> WrittenSoFar]
    /\ UNCHANGED <<now, client, api_calls, api_call_reset_time, api_lock, cache, b3_stocks,
                   passed, current_time, wake_time, manager_vars>>

\* the rest of get_stock_data: the JSON call through the limiter, the scrape
\* if it failed, the parse, and the append to b3_stocks
B3FetchFinish(t, symbol, resp1, resp2) ==
    /\ "B3" \in client
    /\ pc[t] = "live"
    /\ LET lim == Acquire(Limiter("B3"), now, MaxCallsPerMinute("B3"))
           data1 == B3ApiResult(resp1)
           data == IF B3PrimaryFailed(data1) THEN B3ScrapeResult(resp2) ELSE data1
           parsed == B3ParseStockData(data, symbol, lim.at)
           table == IF parsed = None THEN b3_stocks ELSE SaveToDatabase(b3_stocks, parsed)
       IN  /\ lim.at <= MaxTime
           /\ Len(table) <= MaxRows
           /\ now' = lim.at
           /\ api_calls' = [api_calls EXCEPT !["B3"] = lim.calls]
           /\ api_call_reset_time' = [api_call_reset_time EXCEPT !["B3"] = lim.reset]
           /\ passed' = [passed EXCEPT !["B3"] = Prune(Append(@, lim.at), lim.at)]
           /\ b3_stocks' = table
           /\ last' = [op |-> "get_stock_data", symbol |-> symbol, source |-> "live",
                       result |-> parsed,
                       written |-> WrittenSoFar \cup
                                   (IF parsed = None THEN {} ELSE Range(parsed.rows))]
    /\ pc' = [pc EXCEPT ![t] = "idle"]
    /\ UNCHANGED <<client, api_lock, cache, requests, current_time, wake_time, manager_vars>>

NextStore ==
    \/ \E symbol \in Symbols, market \in Markets, ok \in BOOLEAN, quotes \in QuoteLists :
          FetchStockData(symbol, market, ok, quotes)
    \/ \E t \in Threads, symbol \in Symbols, start_date \in StartDates, end_date \in EndDates :
          B3FetchStart(t, symbol, start_date, end_date)
    \/ \E t \in Threads, symbol \in Symbols, x \in B3Exchanges :
          B3FetchFinish(t, symbol, x[1], x[2])

SpecStore == Init /\ [][NextStore]_vars

\* every fetch that was started has returned
AllReturned == \A t \in Threads : pc[t] = "idle"

\* C15: when two fetches of one symbol run concurrently and both write the
\* store, then after both finished the store holds exactly one row per
\* (symbol, date, data_type), and each row is, field for field, a record
\* one of the writers wrote.
C15_ConcurrentUpsertsAtomic ==
    AllReturned
    => /\ \A i, j \in DOMAIN b3_stocks :
            KeyOf(b3_stocks[i]) = KeyOf(b3_stocks[j]) => i = j
       /\ \A i, j \in DOMAIN market_data :
            MarketKey(market_data[i]) = MarketKey(market_data[j]) => i = j
       /\ Range(b3_stocks) \cup Range(market_data) \subseteq WrittenSoFar

\* the date column of a row of either table
DateOf(r) == IF "Date" \in DOMAIN r THEN r.Date ELSE r.date

\* C17: the rows a store query returns for a symbol
\* (B3API._load_from_database, DataManager.get_cached_market_data) are in
\* ascending date order, whatever writes the store has seen.
C17_QueriesAscending ==
    (/\ last.op \in {"_load_from_database", "fetch_stock_data"}
     /\ last.source = "store"
     /\ last.result # None)
    => \A i, j \in DOMAIN last.result.rows :
          i < j => DateOf(last.result.rows[i]) <= DateOf(last.result.rows[j])

(***************************************************************************)
(* DataManager.fetch_economic_indicators.                                  *)
(***************************************************************************)
Countries == {"US", "BR", "XX"}

\* seconds of a calendar day
DayLength == 86400

\* the calendar day of a datetime
DayOf(t) == t \div DayLength

\* the indicators of a country as <<name, value>>, values in tenths
IndicatorsOf(country) ==
    CASE country = "US" -> << <<"inflation_rate", 25>>, <<"interest_rate", 45>>,
                              <<"gdp_growth", 20>>, <<"unemployment_rate", 38>> >>
      [] country = "BR" -> << <<"inflation_rate", 45>>, <<"interest_rate", 105>>,
                              <<"gdp_growth", 15>>, <<"unemployment_rate", 85>> >>
      [] OTHER -> <<>>

\* UNIQUE(country, indicator_name, date)
IndicatorKey(r) == <<r.country, r.indicator_name, r.date>>

\* INSERT OR REPLACE INTO economic_indicators
InsertOrReplaceIndicator(table, r) ==
    Append(SelectSeq(table, LAMBDA x : IndicatorKey(x) # IndicatorKey(r)), r)

\* the loop over indicators.items(); current_date is datetime.now().isoformat()
RECURSIVE StoreIndicators(_, _, _, _)
StoreIndicators(table, country, indicators, current_date) ==
    IF indicators = <<>> THEN table
    ELSE StoreIndicators(
            InsertOrReplaceIndicator(table,
                [country |-> country, indicator_name |-> Head(indicators)[1],
                 date |-> current_date, value |-> Head(indicators)[2],
                 last_updated |-> current_date]),
            country, Tail(indicators), current_date)

FetchEconomicIndicators(country) ==
    /\ economic_indicators' =
          StoreIndicators(economic_indicators, country, IndicatorsOf(country), now)
    /\ last' = [op |-> "fetch_economic_indicators", country |-> country, at |-> now,
                result |-> IndicatorsOf(country)]
    /\ UNCHANGED <<now, client, api_calls, api_call_reset_time, cache, b3_stocks, passed,
                   requests, market_data, thread_vars>>

NextIndicators ==
    \/ Tick
    \/ \E country \in Countries : FetchEconomicIndicators(country)

SpecIndicators == Init /\ [][NextIndicators]_vars

\* C16: after any number of fetch_economic_indicators(country) calls on one
\* calendar day the table holds exactly one row per (country,
\* indicator_name, that day), carrying the latest value: a repeated fetch on
\* the same day overwrites and adds no row.
C16_IndicatorUpsert ==
    /\ \A i, j \in DOMAIN economic_indicators :
          LET a == economic_indicators[i]
              b == economic_indicators[j]
          IN  (/\ a.country = b.country
               /\ a.indicator_name = b.indicator_name
               /\ DayOf(a.date) = DayOf(b.date)) => i = j
    /\ last.op = "fetch_economic_indicators"
          => \A k \in DOMAIN last.result :
                \E i \in DOMAIN economic_indicators :
                    LET a == economic_indicators[i]
                    IN  /\ a.country = last.country
                        /\ a.indicator_name = last.result[k][1]
                        /\ DayOf(a.date) = DayOf(last.at)
                        /\ a.value = last.result[k][2]
                        /\ a.last_updated = last.at

(***************************************************************************)
(* Both clients in use at once: threads calling _make_api_request of       *)
(* AlphaVantageAPI and of B3API.                                           *)
(***************************************************************************)
InitBothClients ==
    /\ now = 0
    /\ client = Providers
    /\ api_calls = [p \in Providers |-> 0]
    /\ api_call_reset_time = [p \in Providers |-> 0]
    /\ api_lock = [p \in Providers |-> "free"]
    /\ cache = [path \in CachePaths |-> AbsentEntry]
    /\ b3_stocks = <<>>
    /\ passed = [p \in Providers |-> <<>>]
    /\ last = NoCall
    /\ requests = 0
    /\ pc = [t \in Threads |-> "idle"]
    /\ current_time = [t \in Threads |-> 0]
    /\ wake_time = [t \in Threads |-> 0]
    /\ market_data = <<>>
    /\ economic_indicators = <<>>

\* AlphaVantageAPI._make_api_request, run to completion
AVMakeApiRequest(resp) ==
    /\ LET lim == Acquire(Limiter("AV"), now, MaxCallsPerMinute("AV"))
       IN  /\ lim.at <= MaxTime
           /\ now' = lim.at
           /\ api_calls' = [api_calls EXCEPT !["AV"] = lim.calls]
           /\ api_call_reset_time' = [api_call_reset_time EXCEPT !["AV"] = lim.reset]
           /\ passed' = [p \in Providers |->
                           Prune(IF p = "AV" THEN Append(passed[p], lim.at) ELSE passed[p],
                                 lim.at)]
           /\ last' = [op |-> "_make_api_request", provider |-> "AV", t0 |-> now,
                       at |-> lim.at, slept |-> lim.slept, result |-> AVApiResult(resp)]
    /\ UNCHANGED <<client, cache, b3_stocks, requests, thread_vars, manager_vars>>

\* B3API._make_api_request, run to completion
B3MakeApiRequest(resp) ==
    /\ LET lim == Acquire(Limiter("B3"), now, MaxCallsPerMinute("B3"))
       IN  /\ lim.at <= MaxTime
           /\ now' = lim.at
           /\ api_calls' = [api_calls EXCEPT !["B3"] = lim.calls]
           /\ api_call_reset_time' = [api_call_reset_time EXCEPT !["B3"] = lim.reset]
           /\ passed' = [p \in Providers |->
                           Prune(IF p = "B3" THEN Append(passed[p], lim.at) ELSE passed[p],
                                 lim.at)]
           /\ last' = [op |-> "_make_api_request", provider |-> "B3", t0 |-> now,
                       at |-> lim.at, slept |-> lim.slept, result |-> B3ApiResult(resp)]
    /\ UNCHANGED <<client, cache, b3_stocks, requests, thread_vars, manager_vars>>

\* the answers tried on the two clients: the request raises, or is answered
FewResponses(bodies) ==
    {r \in Responses(bodies) : r.status = 0 \/ (r.status = StatusOk /\ r.body.items # <<>>
                                                  /\ Len(r.body.items) = 2)}

NextBothClients ==
    \/ Tick
    \/ \E resp \in FewResponses(AVBodies) : AVMakeApiRequest(resp)
    \/ \E resp \in FewResponses(B3Bodies) : B3MakeApiRequest(resp)

SpecBothClients == InitBothClients /\ [][NextBothClients]_vars

\* the ceilings the clients are to have
ClaimedCeiling(p) == IF p = "AV" THEN 5 ELSE 10

LimiterState(p) == <<api_calls[p], api_call_reset_time[p]>>

\* a step that changes the limiter state of p is a request on p: it leaves
\* the limiter state of every other client alone, its caller is made to
\* wait exactly if p's own counter had reached p's own ceiling within the
\* window, and otherwise p's own counter goes up by one
IndependentStep ==
    \A p \in Providers :
        LimiterState(p)' # LimiterState(p)
        => /\ \A q \in Providers \ {p} : LimiterState(q)' = LimiterState(q)
           /\ last'.op = "_make_api_request"
           /\ last'.provider = p
           /\ last'.slept <=> (/\ api_calls[p] >= ClaimedCeiling(p)
                                /\ now - api_call_reset_time[p] < Window)
           /\ ~last'.slept => last'.at = now
           /\ \/ last'.slept
              \/ api_call_reset_time'[p] # api_call_reset_time[p]
              \/ api_calls'[p] = api_calls[p] + 1

\* C18: each client has its own api_calls, api_call_reset_time and ceiling
\* (5 per minute for Alpha Vantage, 10 for B3): an acquisition on one client
\* leaves the limiter state of the other unchanged, and a caller is delayed
\* only by the exhausted budget of its own provider.
C18_IndependentLimiters == [][IndependentStep]_vars

\* C18 witness: with the Alpha Vantage budget of the window used up, a B3
\* request went through without waiting
C18_Witness ==
    /\ last.op = "_make_api_request"
    /\ last.provider = "B3"
    /\ ~last.slept
    /\ last.at = now
    /\ api_calls["AV"] = 5
    /\ now - api_call_reset_time["AV"] < Window
    /\ api_calls["B3"] = 1

\* the latest call consulted every tier of its chain, each failed, and it
\* returned the failure value
Exhausted ==
    /\ Called
    /\ last.tiers = TierChain(last)
    /\ \A i \in DOMAIN last.tiers :
          IF last.tiers[i] = "stale" THEN last.loads[Len(last.loads)].out = NoData
          ELSE TierFailed(last.tiers[i])
    /\ ~last.result.ok

\* C19: when every tier fails, the failure value returned to the caller
\* identifies the symbol and the tiers that were attempted, so an exhausted
\* request differs from any other absent result.
C19_ExhaustionCarriesContext ==
    Exhausted
    => /\ "symbol" \in DOMAIN last.result
       /\ "tiers" \in DOMAIN last.result
       /\ last.result.symbol = last.symbol
       /\ last.result.tiers = last.tiers

\* the log events that tell the caller a result may be stale
StaleSignals == {UsingExpiredMessage(s, i) : s \in Symbols, i \in Intervals \cup {""}}

Signalled == \E i \in DOMAIN last.log : last.log[i] \in StaleSignals

\* the latest call returned records and the stale tier was the one it ended in
ServedByStale == Called /\ last.result.ok /\ "stale" \in Range(last.tiers)

SectionSteps ==
    \E t \in Threads, p \in Providers :
        CheckLimit(t, p) \/ WakeUp(t, p) \/ LeaveSection(t, p)

SpecLimiterFair ==
    /\ Init
    /\ [][NextLimiter]_vars
    /\ WF_vars(Tick)
    /\ WF_vars(SectionSteps)

\* C21: every fetch terminates: each network call has its own timeout, so a
\* caller that has issued its request always comes back, even when the
\* provider never answers, and a caller stuck in its network call does not
\* hold the limiter section against the others.
C21_EveryFetchTerminates ==
    /\ \A t \in Threads : (pc[t] = "request") ~> (pc[t] = "idle")
    /\ [](\A t \in Threads, p \in Providers : pc[t] = "request" => api_lock[p] # t)

(***************************************************************************)
(* AlphaVantageAPI._parse_treasury_data as a function of its payload.      *)
(***************************************************************************)
MaxPoints == 2

\* the "value" strings of a data point; "." is not a number
TreasuryValues == {"1", "2", "."}
IsNumeric(s) == s \in {"1", "2"}
\* pd.to_numeric on a string that holds a number
ToNumeric(s) == CASE s = "1" -> 1 [] s = "2" -> 2

TreasuryPoints == [date : 1..2, value : TreasuryValues]
TreasuryDataLists == UNION {[1..n -> TreasuryPoints] : n \in 0..MaxPoints}
\* a payload with the "data" list, or one without (a note, an error body)
TreasuryPayloads ==
    {[has_data |-> FALSE, data |-> <<>>]}
        \cup {[has_data |-> TRUE, data |-> l] : l \in TreasuryDataLists}
Maturities == {"10year", "2year"}
Upper(maturity) == CASE maturity = "10year" -> "10YEAR" [] maturity = "2year" -> "2YEAR"

TreasuryRecord(point, maturity, t) ==
    [Date |-> point.date, Open |-> ToNumeric(point.value), High |-> ToNumeric(point.value),
     Low |-> ToNumeric(point.value), Close |-> ToNumeric(point.value), Volume |-> 0,
     symbol |-> "TREASURY_" \o Upper(maturity), market |-> "US", data_type |-> "bond",
     last_updated |-> t]

\* pd.DataFrame([]) has no "date" column and pd.to_numeric raises on a string
\* that is not a number: both exceptions are caught and give None
ParseTreasuryData(data, maturity, t) ==
    IF ~data.has_data THEN None
    ELSE IF data.data = <<>> THEN None
    ELSE IF \E i \in 1..Len(data.data) : ~IsNumeric(data.data[i].value) THEN None
    ELSE Frame(SortByDate([i \in 1..Len(data.data) |->
                              TreasuryRecord(data.data[i], maturity, t)]))

ParseTreasuryCall(data, maturity) ==
    /\ "AV" \in client
    /\ last' = [op |-> "_parse_treasury_data", provider |-> "AV", data |-> data,
                maturity |-> maturity, result |-> ParseTreasuryData(data, maturity, now)]
    /\ UNCHANGED <<now, client, api_calls, api_call_reset_time, cache, b3_stocks, passed,
                   requests, thread_vars, manager_vars>>

NextTreasury ==
    \/ Tick
    \/ \E data \in TreasuryPayloads, maturity \in Maturities : ParseTreasuryCall(data, maturity)

SpecTreasury == Init /\ [][NextTreasury]_vars

\* the rows are the data points, each with its value in the four price columns
OnePerPoint(rows, points) ==
    /\ Len(rows) = Len(points)
    /\ \E f \in Permutations(1..Len(points)) :
           \A i \in 1..Len(points) :
               /\ rows[i].Date = points[f[i]].date
               /\ IsNumeric(points[f[i]].value)
               /\ rows[i].Open = ToNumeric(points[f[i]].value)
               /\ rows[i].High = rows[i].Open
               /\ rows[i].Low = rows[i].Open
               /\ rows[i].Close = rows[i].Open
               /\ rows[i].Volume = 0

\* C22: treasury normalization: for every payload with a data list,
\* _parse_treasury_data returns one record per data point, sorted by date, with
\* Open = High = Low = Close = the point's value and Volume = 0; a payload
\* without the data list yields None.
C22_TreasuryNormalization ==
    last.op = "_parse_treasury_data" =>
        IF last.data.has_data
        THEN /\ last.result.ok
             /\ OnePerPoint(last.result.rows, last.data.data)
             /\ \A i, j \in 1..Len(last.result.rows) :
                    i < j => last.result.rows[i].Date <= last.result.rows[j].Date
        ELSE last.result = None

(***************************************************************************)
(* The counter of the limiter, step by step of the locked section.         *)
(***************************************************************************)
\* the caller went through time.sleep in the acquisition it is in: its wake-up
\* time lies after the time it read on entering the section
Slept(t) == wake_time[t] > current_time[t]

CounterBounded ==
    \A p \in Providers : 0 <= api_calls[p] /\ api_calls[p] <= MaxCallsPerMinute(p)

\* the test of line 87 and what follows it, for the holder t of p's lock
CeilingStep ==
    \A t \in Threads, p \in Providers :
        api_lock[p] = t =>
            /\ (pc[t] = "check" /\ pc'[t] # "check") =>
                   IF api_calls'[p] >= MaxCallsPerMinute(p)
                   THEN pc'[t] = "sleep" /\ wake_time'[t] > now
                   ELSE pc'[t] = "incr"
            /\ (pc[t] = "sleep" /\ pc'[t] # "sleep") =>
                   /\ now >= wake_time[t]
                   /\ api_calls'[p] = 0
                   /\ api_call_reset_time'[p] = now
                   /\ pc'[t] = "incr"
            /\ (pc[t] = "incr" /\ pc'[t] # "incr" /\ Slept(t)) =>
                   /\ api_calls'[p] = 1
                   /\ api_call_reset_time'[p] = api_call_reset_time[p]
                   /\ api_call_reset_time[p] >= wake_time[t]

\* C23: counter bound: in every reachable state 0 <= api_calls <= ceiling (5 for
\* Alpha Vantage, 10 for B3); an acquisition whose limit test finds api_calls at
\* the ceiling has a positive remaining wait, sleeps, resets api_calls to 0 and
\* api_call_reset_time to the wake-up time, and leaves the counter at 1.
C23_CounterBound == []CounterBounded /\ [][CeilingStep]_vars

\* a caller that slept has left the section and the counter is 1
C23_Witness ==
    \E t \in Threads, p \in client :
        /\ pc[t] = "request"
        /\ Slept(t)
        /\ api_calls[p] = 1
        /\ api_call_reset_time[p] >= wake_time[t]
        /\ api_call_reset_time[p] > 0

(***************************************************************************)
(* Two requests in a row: what the second finds of the first.              *)
(***************************************************************************)
\* the records without the time of normalization
Content(rows) ==
    [i \in 1..Len(rows) |->
        [f \in (DOMAIN rows[i]) \ {"last_updated"} |-> rows[i][f]]]

\* the step is a request with the arguments of the latest one
SameRequestAgain ==
    /\ requests' = requests + 1
    /\ last'.op = "get_stock_data"
    /\ last'.provider = last.provider
    /\ last'.symbol = last.symbol
    /\ last'.use_cache = last.use_cache
    /\ last'.max_age = last.max_age
    /\ last'.start_date = last.start_date
    /\ last'.end_date = last.end_date

\* the latest request returned records of a live tier and wrote them through
SucceededLive == Called /\ last.use_cache /\ last.cache_written /\ last.result.ok

ServedFromWrittenCache ==
    (/\ SucceededLive
     /\ SameRequestAgain
     /\ last'.t0 - last.at <= last.max_age)
    => /\ last'.tiers = <<"fresh">>
       /\ last'.outbound = 0
       /\ last'.acquired = 0
       /\ last'.result.ok
       /\ Content(last'.result.rows) = Content(last.result.rows)

\* C24: a cache written by a successful fetch serves the next request: after a
\* get_stock_data call with use_cache = true that succeeded through a live
\* tier, an identical request issued while the entry's age is within
\* max_cache_age is served from the fresh-cache tier, returns the same records
\* and issues no provider call.
C24_WrittenCacheServesNext == [][ServedFromWrittenCache]_vars

(***************************************************************************)
(* get_stock_data with the file system failing under _save_to_cache: the   *)
(* try block opens the file for writing (which empties it) and then dumps  *)
(* the entry; either statement may raise, and the except branch returns    *)
(* False.                                                                  *)
(***************************************************************************)
\* where the save raises: nowhere by the file system, at open(), at the write
Faults == {"none", "open", "write"}

\* the entry after a save that would leave saved behind without a fault
SaveToCacheIo(entry, saved, fault) ==
    IF fault = "open" THEN entry
    ELSE IF fault = "write" THEN CorruptEntry
    ELSE saved

\* a run of get_stock_data whose cache save meets the fault
WithIo(run, payload, fault) ==
    IF run.call.cache_written
    THEN [run EXCEPT
            !.entry = SaveToCacheIo(run.call.pre_entry, run.entry, fault),
            !.call = @ @@ [fault |-> fault,
                           save_returned |-> fault = "none" /\ SaveToCacheResult(payload)]]
    ELSE [run EXCEPT !.call = @ @@ [fault |-> "none", save_returned |-> TRUE]]

AVGetStockDataIo(symbol, interval, outputsize, use_cache, max_age, resp, fault) ==
    /\ "AV" \in client
    /\ requests < MaxRequests
    /\ \E run0 \in {AVRun(symbol, interval, outputsize, use_cache, max_age, resp)} :
       \E run \in {WithIo(run0, AVApiResult(resp), fault)} :
        /\ fault # "none" => run0.call.cache_written
        /\ requests' = requests + 1
        /\ run.call.at <= MaxTime
        /\ now' = run.call.at
        /\ api_calls' = [api_calls EXCEPT !["AV"] = run.lim.calls]
        /\ api_call_reset_time' = [api_call_reset_time EXCEPT !["AV"] = run.lim.reset]
        /\ cache' = [cache EXCEPT ![run.call.path] = run.entry]
        /\ passed' = [p \in Providers |->
                        Prune(IF p = "AV" /\ run.called
                              THEN Append(passed[p], run.call.at) ELSE passed[p],
                              run.call.at)]
        /\ last' = run.call
        /\ UNCHANGED <<client, b3_stocks, thread_vars, manager_vars>>

B3GetStockDataIo(symbol, start_date, end_date, use_cache, max_age, resp1, resp2, fault) ==
    /\ "B3" \in client
    /\ requests < MaxRequests
    /\ \E run0 \in {B3Run(symbol, start_date, end_date, use_cache, max_age, resp1, resp2)} :
       \E run \in {WithIo(run0, ToDictRecords(run0.call.result), fault)} :
        /\ fault # "none" => run0.call.cache_written
        /\ requests' = requests + 1
        /\ run.call.at <= MaxTime
        /\ Len(run.table) <= MaxRows
        /\ now' = run.call.at
        /\ api_calls' = [api_calls EXCEPT !["B3"] = run.lim.calls]
        /\ api_call_reset_time' = [api_call_reset_time EXCEPT !["B3"] = run.lim.reset]
        /\ cache' = [cache EXCEPT ![run.call.path] = run.entry]
        /\ b3_stocks' = run.table
        /\ passed' = [p \in Providers |->
                        Prune(IF p = "B3" /\ run.called
                              THEN Append(passed[p], run.call.at) ELSE passed[p],
                              run.call.at)]
        /\ last' = run.call
        /\ UNCHANGED <<client, thread_vars, manager_vars>>

NextIo ==
    \/ Tick
    \/ \E symbol \in Symbols, interval \in Intervals, outputsize \in OutputSizes,
          use_cache \in BOOLEAN, max_age \in CacheAges, resp \in Responses(AVBodies),
          fault \in Faults :
            AVGetStockDataIo(symbol, interval, outputsize, use_cache, max_age, resp, fault)
    \/ \E symbol \in Symbols, start_date \in StartDates, end_date \in EndDates,
          use_cache \in BOOLEAN, max_age \in CacheAges, x \in B3Exchanges, fault \in Faults :
            B3GetStockDataIo(symbol, start_date, end_date, use_cache, max_age, x[1], x[2], fault)

SpecIo == Init /\ [][NextIo]_vars

\* the latest request called _save_to_cache and the save failed
SaveFailed == Called /\ last.cache_written /\ ~last.save_returned

\* C25: a failed cache save is harmless: when _save_to_cache fails it returns
\* False, the fetch still returns the normalized records to the caller, and
\* the entry previously stored under that key is still present and loadable
\* unchanged.
C25_FailedSaveHarmless ==
    SaveFailed =>
        /\ last.result = NormalizedBy(last.provider, last.data, last.symbol, last.at)
        /\ last.pre_entry.st = "ok" =>
               /\ cache[last.path] = last.pre_entry
               /\ LoadFromCache(cache[last.path], now - last.pre_entry.timestamp, now)
                      = last.pre_entry.data

(***************************************************************************)
(* The store tier of B3API.get_stock_data.                                 *)
(***************************************************************************)
\* the latest B3 request missed the fresh cache and its store query had rows
StoreHitCase ==
    /\ Called
    /\ last.provider = "B3"
    /\ last.use_cache => last.loads[1].out = NoData
    /\ LoadFromDatabase(last.pre_rows, last.symbol, last.start_date, last.end_date) # <<>>

StoreHitShortCircuits ==
    StoreHitCase =>
        /\ last.result = Frame(LoadFromDatabase(last.pre_rows, last.symbol,
                                                last.start_date, last.end_date))
        /\ last.acquired = 0
        /\ last.outbound = 0
        /\ ~last.cache_written
        /\ ~last.store_written
        /\ cache[last.path] = last.pre_entry
        /\ b3_stocks = last.pre_rows

\* the date range of request b is that of request a or wider
EqualOrWider(b, a) ==
    /\ b.start_date = NoDate \/ (a.start_date # NoDate /\ b.start_date <= a.start_date)
    /\ b.end_date = NoDate \/ (a.end_date # NoDate /\ b.end_date >= a.end_date)

\* after a request that persisted rows, a request for the symbol with an equal
\* or wider range does not go to the provider
NoLiveFetchAfterPersist ==
    (/\ Called
     /\ last.provider = "B3"
     /\ last.store_written
     /\ requests' = requests + 1
     /\ last'.op = "get_stock_data"
     /\ last'.symbol = last.symbol
     /\ EqualOrWider(last', last))
    => /\ last'.acquired = 0
       /\ last'.outbound = 0

\* C26: a store hit short-circuits B3 for good: whenever the fresh-cache tier
\* misses and the store query for the symbol and date range is non-empty, the
\* stored rows are returned and no provider call, cache write or store write
\* happens; hence once rows for a symbol are persisted, no later request with
\* an equal or wider date range fetches that symbol live again.
C26_StoreHitForGood == []StoreHitShortCircuits /\ [][NoLiveFetchAfterPersist]_vars

(***************************************************************************)
(* Frame of the fresh-cache tier.                                          *)
(***************************************************************************)
\* the step is a request whose first cache read returned an entry
FreshHitStep ==
    /\ requests' = requests + 1
    /\ last'.op = "get_stock_data"
    /\ last'.use_cache
    /\ last'.loads[1].out # NoData

FreshHitFrame ==
    FreshHitStep =>
        /\ last'.outbound = 0
        /\ last'.acquired = 0
        /\ api_calls' = api_calls
        /\ api_call_reset_time' = api_call_reset_time
        /\ ~last'.cache_written
        /\ ~last'.store_written
        /\ cache' = cache
        /\ b3_stocks' = b3_stocks

\* C27: a fresh-cache hit touches nothing else: when the fresh-cache tier
\* hits, the request issues no provider call, consumes no limiter slot
\* (api_calls and api_call_reset_time unchanged) and writes neither the cache
\* nor the store.
C27_FreshHitFrame == [][FreshHitFrame]_vars

\* a request was served by the fresh cache after the limiter had been used
C27_Witness ==
    /\ Called
    /\ last.use_cache
    /\ last.loads[1].out # NoData
    /\ last.tiers = <<"fresh">>
    /\ last.result.ok
    /\ api_calls[last.provider] = 1
    /\ cache[last.path] = last.pre_entry

(***************************************************************************)
(* The cache reads and writes of one request.                              *)
(***************************************************************************)
\* the cache reads of the latest request that ignore the age
IgnoreAgeReads == {i \in 1..Len(last.loads) : last.loads[i].max_age = Inf}

\* C28: use_cache = false disables both cache tiers: such a request never
\* reads the cache (neither with the caller's max age nor ignoring the age) and
\* never writes it; with use_cache = true the ignore-age read is performed only
\* after the live tiers of the same request have failed, never as part of the
\* fresh-cache tier.
C28_UseCacheGatesBothTiers ==
    Called =>
        IF ~last.use_cache
        THEN /\ last.loads = <<>>
             /\ ~last.cache_written
             /\ cache[last.path] = last.pre_entry
        ELSE /\ Len(last.loads) >= 1
             /\ last.loads[1].max_age = last.max_age
             /\ IgnoreAgeReads \subseteq {2}
             /\ IgnoreAgeReads # {} =>
                    /\ last.loads[1].out = NoData
                    /\ LiveTiersFailed
                    /\ last.loads[2].at >= last.at

\* a request without cache whose live tiers failed, and one with cache that
\* read the entry ignoring its age after they failed
C28_Witness ==
    /\ Called
    /\ LiveTiersFailed
    /\ last.result = None
    /\ \/ ~last.use_cache /\ last.pre_entry.st = "ok" /\ last.loads = <<>>
       \/ last.use_cache /\ last.pre_entry.st = "ok" /\ IgnoreAgeReads = {2}

(***************************************************************************)
(* What a request costs in limiter slots.                                  *)
(***************************************************************************)
\* the counter of p went up by one, or was reset and then counted the caller
CountedOnce(p) ==
    \/ api_calls'[p] = api_calls[p] + 1
    \/ api_calls'[p] = 1 /\ api_call_reset_time'[p] > api_call_reset_time[p]

AttemptCounted ==
    (requests' = requests + 1 /\ last'.op = "get_stock_data") =>
        /\ last'.acquired = IF last'.primary # NotAsked THEN 1 ELSE 0
        /\ IF last'.primary # NotAsked
           THEN /\ CountedOnce(last'.provider)
                /\ passed'[last'.provider] # <<>>
                /\ passed'[last'.provider][Len(passed'[last'.provider])] = last'.at
           ELSE /\ api_calls' = api_calls
                /\ api_call_reset_time' = api_call_reset_time

\* C29: the limiter counts attempts, not successes: every call of
\* _make_api_request increments api_calls exactly once, before the request is
\* issued and whatever it returns; a request that fails (exception, non-200,
\* error-flagged body) does not give the slot back.
C29_AttemptsCounted == [][AttemptCounted]_vars

\* two requests in a row failed at the provider and each used a slot
C29_Witness ==
    /\ Called
    /\ last.primary # NotAsked
    /\ LiveTiersFailed
    /\ last.result = None
    /\ api_calls[last.provider] = 2
    /\ requests = 2

(***************************************************************************)
(* B3API.get_fii_data: get_stock_data, then the returned frame is          *)
(* relabelled.                                                             *)
(***************************************************************************)
\* stock_data["data_type"] = "fii"
AsFii(frame) ==
    IF frame = None THEN None
    ELSE Frame([i \in 1..Len(frame.rows) |-> [frame.rows[i] EXCEPT !.data_type = "fii"]])

B3GetFiiData(symbol, start_date, end_date, use_cache, max_age, resp1, resp2) ==
    /\ "B3" \in client
    /\ requests < MaxRequests
    /\ \E run \in {B3Run(symbol, start_date, end_date, use_cache, max_age, resp1, resp2)} :
        /\ requests' = requests + 1
        /\ run.call.at <= MaxTime
        /\ Len(run.table) <= MaxRows
        /\ now' = run.call.at
        /\ api_calls' = [api_calls EXCEPT !["B3"] = run.lim.calls]
        /\ api_call_reset_time' = [api_call_reset_time EXCEPT !["B3"] = run.lim.reset]
        /\ cache' = [cache EXCEPT ![run.call.path] = run.entry]
        /\ b3_stocks' = run.table
        /\ passed' = [p \in Providers |->
                        Prune(IF p = "B3" /\ run.called
                              THEN Append(passed[p], run.call.at) ELSE passed[p],
                              run.call.at)]
        /\ last' = [run.call EXCEPT !.op = "get_fii_data", !.result = AsFii(run.call.result)]
        /\ UNCHANGED <<client, thread_vars, manager_vars>>

NextFii ==
    \/ Tick
    \/ \E symbol \in Symbols, start_date \in StartDates, end_date \in EndDates,
          use_cache \in BOOLEAN, max_age \in CacheAges, x \in B3Exchanges :
            \/ B3GetStockData(symbol, start_date, end_date, use_cache, max_age, x[1], x[2])
            \/ B3GetFiiData(symbol, start_date, end_date, use_cache, max_age, x[1], x[2])

SpecFii == Init /\ [][NextFii]_vars

\* the rows the latest request appended to b3_stocks
WrittenRows == SubSeq(b3_stocks, Len(last.pre_rows) + 1, Len(b3_stocks))

\* the data_type values of a sequence of records
DataTypes(rows) == {rows[i].data_type : i \in 1..Len(rows)}

\* C30: returned and persisted records agree on data_type: for every B3 fetch
\* that writes through (get_stock_data and get_fii_data) the rows written to
\* the store and the cache carry the data_type of the records returned to the
\* caller; a get_fii_data fetch persists its rows with data_type fii.
C30_PersistedDataType ==
    (last.op \in {"get_stock_data", "get_fii_data"} /\ last.provider = "B3"
        /\ last.store_written)
    => /\ DataTypes(WrittenRows) = DataTypes(last.result.rows)
       /\ cache[last.path].st = "ok" =>
              DataTypes(cache[last.path].data.items) = DataTypes(last.result.rows)
       /\ last.op = "get_fii_data" => DataTypes(WrittenRows) = {"fii"}

====
